---- MODULE Spec2Model ----
(***************************************************************************)
(* Model of api_server.py: the project-workspace HTTP API around the       *)
(* external graph indexing library.                                        *)
(*                                                                         *)
(* State:                                                                  *)
(*   env        the process environment the request validator reads        *)
(*   fs         the directory tree under API_PROJECTS_DIR: per project,    *)
(*              does its directory exist, does it hold input/ and output/  *)
(*              (the files in them are not part of the state)              *)
(*   generated  the identifiers uuid4 has returned                         *)
(*   inflight   the handlers suspended at an await                         *)
(*   resp       the response the last step sent (none when its handler     *)
(*              suspended)                                                 *)
(*   created    the identifiers returned by successful create requests     *)
(*   deleted    the identifiers of successful delete requests              *)
(*                                                                         *)
(* A handler runs without interruption between two awaits (one event       *)
(* loop), so every action is one run segment of one handler: from its      *)
(* entry to its first await or its response, or from the resumption of an  *)
(* await to the next await or the response.                                *)
(*                                                                         *)
(* An exception is a modelled outcome exactly where the source catches it  *)
(* (the try blocks of lines 115-156, 168-196, 213-251, 270-281, 302-306).  *)
(***************************************************************************)
EXTENDS Integers, Sequences, FiniteSets, TLC

VARIABLES env, fs, generated, inflight, resp, created, deleted

vars == <<env, fs, generated, inflight, resp, created, deleted>>

\* Number of distinct identifiers uuid4 hands out in a run.
NumProjects == 2
\* Longest list of files in one upload request.
MaxFiles == 2
\* Most requests suspended at an await at the same time.
MaxInFlight == 1

ProjectIds == 1..NumProjects
Slots == 1..MaxInFlight

\* A missing key of the request body, a JSON null, or an unset environment
\* variable (os.getenv returns None).
ABSENT == "<absent>"

\* Python truthiness of an optional string: None and "" are falsy.
Falsy(x) == x \in {ABSENT, ""}

(***************************************************************************)
(* Request validation: CreateProjectRequest.fill_defaults_from_env         *)
(***************************************************************************)

NoBody ==
    [api_key |-> ABSENT, llm |-> ABSENT, text_content |-> "", azure_api_base |-> ABSENT,
     azure_api_version |-> ABSENT, azure_deployment_name |-> ABSENT]

\* dict.setdefault: the environment value is stored only when the key is
\* missing from the request body.
SetDefault(cur, dflt) == IF cur = ABSENT THEN dflt ELSE cur

ApiKeyStep_NoRaise(values, e) ==
    [ok |-> TRUE, error |-> "",
     values |-> IF Falsy(values.api_key)
                THEN [values EXCEPT !.api_key = e.GRAPHRAG_API_KEY] ELSE values]

\* Lines 63-68: the credential of the request, else of the environment,
\* else ValueError (error: its message, which the 422 response carries).
ApiKeyStep(values, e) ==
    IF Falsy(values.api_key)
    THEN IF ~Falsy(e.GRAPHRAG_API_KEY)
         THEN [ok |-> TRUE, error |-> "",
               values |-> [values EXCEPT !.api_key = e.GRAPHRAG_API_KEY]]
         ELSE [ok |-> FALSE, error |-> "API key required", values |-> values]
    ELSE [ok |-> TRUE, error |-> "", values |-> values]

\* Lines 71-82: with llm 'azure' the three AZURE_* variables must all be
\* set in the environment (whatever the request body holds), then they are
\* the defaults of the body's fields.
AzureStep(values, e) ==
    LET llm_val == IF Falsy(values.llm) THEN "openai" ELSE values.llm
    IN  IF llm_val = "azure"
        THEN IF Falsy(e.AZURE_API_BASE) \/ Falsy(e.AZURE_API_VERSION)
                \/ Falsy(e.AZURE_DEPLOYMENT_NAME)
             THEN [ok |-> FALSE, error |-> "Azure settings required", values |-> values]
             ELSE [ok |-> TRUE, error |-> "",
                   values |-> [values EXCEPT
                       !.azure_api_base = SetDefault(@, e.AZURE_API_BASE),
                       !.azure_api_version = SetDefault(@, e.AZURE_API_VERSION),
                       !.azure_deployment_name = SetDefault(@, e.AZURE_DEPLOYMENT_NAME)]]
        ELSE [ok |-> TRUE, error |-> "", values |-> values]

fill_defaults_from_env(values, e) ==
    LET k == ApiKeyStep(values, e)
    IN  IF ~k.ok THEN k ELSE AzureStep(k.values, e)

(***************************************************************************)
(* The directory tree                                                      *)
(***************************************************************************)

\* No directory API_PROJECTS_DIR / id.
NoDir == [exists |-> FALSE, input |-> FALSE, output |-> FALSE]

\* The directories create_project leaves on success: the project's and input/.
NewDir == [exists |-> TRUE, input |-> TRUE, output |-> FALSE]

DirStates ==
    {d \in [exists : BOOLEAN, input : BOOLEAN, output : BOOLEAN] :
        ~d.exists => d = NoDir}

\* shutil.rmtree that raised: the directory itself is still there, any of
\* its entries may already be gone.
PartlyRemoved(d) ==
    {x \in DirStates : /\ x.exists
                       /\ x.input => d.input
                       /\ x.output => d.output}

\* Line 314: the names of the directories directly under API_PROJECTS_DIR.
ListProjects == {p \in ProjectIds : fs[p].exists}

(***************************************************************************)
(* Responses, and the handlers suspended at an await                       *)
(***************************************************************************)

\* project_id: the identifier in the response body (0: the body names none);
\* ext: the external routines the handler called; successful and failed:
\* the upload report; projects: the listing.
Response(op, status, detail, project_id, ext, successful, failed, projects) ==
    [op |-> op, status |-> status, detail |-> detail, project_id |-> project_id,
     ext |-> ext, successful |-> successful, failed |-> failed, projects |-> projects]

\* The step answered no request (its handler suspended at an await).
NoResp == Response("none", 0, "", 0, {}, <<>>, <<>>, {})

\* raise HTTPException(status_code, detail).
HTTPException(op, status, detail, ext) ==
    Response(op, status, detail, 0, ext, <<>>, <<>>, {})

\* return {"project_id": project_id, "message": message}.
Returned(op, status, project_id, message, ext) ==
    Response(op, status, message, project_id, ext, <<>>, <<>>, {})

\* A free slot of the event loop's suspended handlers.
Idle == [kind |-> "idle", pid |-> 0, method |-> ABSENT, output_dir |-> ABSENT,
         files |-> <<>>, idx |-> 0, successful |-> <<>>, failed |-> <<>>]

FreeSlots == {s \in Slots : inflight[s] = Idle}

\* The slot a handler that suspends is parked in.
NextSlot == CHOOSE s \in FreeSlots : \A t \in FreeSlots : s <= t

AllCompleted == \A s \in Slots : inflight[s] = Idle

(***************************************************************************)
(* POST /create_project                                                    *)
(***************************************************************************)

\* The steps of the try block of create_project that can raise.
CreateSteps == {"mkdir", "write_text", "initialize_project_at", "write_env", "settings"}

\* The directory of the new identifier at the moment step failAt raises;
\* partial: mkdir(parents=True) had made the project directory when it
\* raised on input/.
BeforeCleanup(failAt, partial) ==
    IF failAt = "mkdir"
    THEN [exists |-> partial, input |-> FALSE, output |-> FALSE]
    ELSE NewDir

\* Line 113: uuid4 returns an identifier it has not returned before; the
\* identifiers are named in the order they are generated.
NewId == CHOOSE id \in ProjectIds \ generated : \A j \in ProjectIds \ generated : id <= j

CleanupOnFailure_Skipped(d) == d

\* Lines 154-155: if project_path.exists(): shutil.rmtree(project_path).
CleanupOnFailure(d) == IF d.exists THEN NoDir ELSE d

\* The external routines the handler had called when it left the try block.
CreateExt(failAt) ==
    IF failAt \in {"mkdir", "write_text"} THEN {} ELSE {"initialize_project_at"}

\* failAt: the step of the try block that raises ("none": none does).
create_project(body, failAt, partial) ==
    /\ partial => failAt = "mkdir"
    /\ failAt = "write_text" => body.text_content # ""
    /\ IF ~fill_defaults_from_env(body, env).ok
       THEN /\ failAt = "none"
            /\ resp' = HTTPException("create", 422,
                                     fill_defaults_from_env(body, env).error, {})
            /\ UNCHANGED <<fs, generated, created>>
       ELSE /\ generated # ProjectIds
            /\ generated' = generated \cup {NewId}
            /\ IF failAt = "none"
               THEN /\ fs' = [fs EXCEPT ![NewId] = NewDir]
                    /\ created' = created \cup {NewId}
                    /\ resp' = Returned("create", 201, NewId,
                                        "Project created successfully.", CreateExt(failAt))
               ELSE /\ fs' = [fs EXCEPT
                               ![NewId] = CleanupOnFailure(BeforeCleanup(failAt, partial))]
                    /\ created' = created
                    /\ resp' = HTTPException("create", 500, "Failed to create project",
                                             CreateExt(failAt))
    /\ UNCHANGED <<env, inflight, deleted>>

(***************************************************************************)
(* DELETE /project/{project_id}                                            *)
(***************************************************************************)

\* rmOk: shutil.rmtree returned; left: what it left behind when it raised.
delete_project(p, rmOk, left) ==
    /\ IF ~fs[p].exists
       THEN /\ rmOk /\ left = NoDir
            /\ resp' = HTTPException("delete", 404, "Project not found.", {})
            /\ UNCHANGED <<fs, deleted>>
       ELSE IF rmOk
            THEN /\ left = NoDir
                 /\ fs' = [fs EXCEPT ![p] = NoDir]
                 /\ deleted' = deleted \cup {p}
                 /\ resp' = Returned("delete", 200, p, "Project deleted successfully.", {})
            ELSE /\ left \in PartlyRemoved(fs[p])
                 /\ fs' = [fs EXCEPT ![p] = left]
                 /\ deleted' = deleted
                 /\ resp' = HTTPException("delete", 500, "Failed to delete project", {})
    /\ UNCHANGED <<env, generated, inflight, created>>

(***************************************************************************)
(* GET /projects                                                           *)
(***************************************************************************)

list_projects ==
    /\ resp' = Response("list", 200, "", 0, {}, <<>>, <<>>, ListProjects)
    /\ UNCHANGED <<env, fs, generated, inflight, created, deleted>>

(***************************************************************************)
(* POST /index/{project_id}                                                *)
(***************************************************************************)

\* The values of graphrag's IndexingMethod enum the requests use; any other
\* string makes IndexingMethod(config.method) raise ValueError.
IndexingMethods == {"standard"}

IndexDecision_IgnoresDryRun(d, cfgOk, dry_run, method) ==
    IF ~d.exists THEN "not_found"
    ELSE IF ~cfgOk THEN "config_error"
    ELSE IF method \notin IndexingMethods THEN "method_error"
    ELSE "build_index"

\* Lines 165-191 up to the await: which way the handler leaves. cfgOk: did
\* load_config return (it raises on a configuration it cannot load).
IndexDecision(d, cfgOk, dry_run, method) ==
    IF ~d.exists THEN "not_found"
    ELSE IF ~cfgOk THEN "config_error"
    ELSE IF dry_run THEN "dry_run"
    ELSE IF method \notin IndexingMethods THEN "method_error"
    ELSE "build_index"

run_indexing(p, method, dry_run, output_dir, cfgOk) ==
    LET way == IndexDecision(fs[p], cfgOk, dry_run, method)
    IN  /\ CASE way = "not_found" ->
                  /\ resp' = HTTPException("index", 404, "Project not found.", {})
                  /\ UNCHANGED inflight
             [] way = "config_error" ->
                  /\ resp' = HTTPException("index", 500, "Indexing failed", {"load_config"})
                  /\ UNCHANGED inflight
             [] way = "dry_run" ->
                  /\ resp' = Returned("index", 200, p,
                         "Dry run validation successful. Configuration is valid.",
                         {"load_config"})
                  /\ UNCHANGED inflight
             [] way = "method_error" ->
                  /\ resp' = HTTPException("index", 500, "Indexing failed", {"load_config"})
                  /\ UNCHANGED inflight
             [] OTHER ->
                  /\ FreeSlots # {}
                  /\ resp' = NoResp
                  /\ inflight' = [inflight EXCEPT ![NextSlot] =
                         [Idle EXCEPT !.kind = "index", !.pid = p, !.method = method,
                                      !.output_dir = output_dir]]
        /\ UNCHANGED <<env, fs, generated, created, deleted>>

\* What the pipeline does to the project directory when it writes: its
\* file storage makes its base directory together with the missing parents
\* (so the project directory too, when a delete has removed it meanwhile),
\* output/ unless output.base_dir was overridden.
PipelineWrites(d, output_dir) ==
    [d EXCEPT !.exists = TRUE, !.output = IF output_dir = ABSENT THEN TRUE ELSE @]

\* Lines 186-196: build_index returns or raises. The pipeline is the
\* external library's: ok is its result, wrote whether it had written
\* under the project root by then (a pipeline that returns has written).
run_indexing_resume(s, ok, wrote) ==
    LET r == inflight[s]
    IN  /\ r.kind = "index"
        /\ ok => wrote
        /\ inflight' = [inflight EXCEPT ![s] = Idle]
        /\ fs' = IF wrote THEN [fs EXCEPT ![r.pid] = PipelineWrites(@, r.output_dir)]
                 ELSE fs
        /\ resp' = IF ok
                   THEN Returned("index", 200, r.pid,
                                 "Indexing process completed successfully.",
                                 {"load_config", "build_index"})
                   ELSE HTTPException("index", 500, "Indexing failed",
                                      {"load_config", "build_index"})
        /\ UNCHANGED <<env, generated, created, deleted>>

(***************************************************************************)
(* POST /query/{project_id}                                                *)
(***************************************************************************)

SearchMethods == {"local", "global"}

QueryDecision_MethodFirst(d, method) ==
    IF ~d.exists THEN "not_found"
    ELSE IF method \notin SearchMethods THEN "invalid_method"
    ELSE IF ~d.output THEN "not_indexed"
    ELSE "search"

\* Lines 204-224: which way the handler leaves before the executor call.
QueryDecision(d, method) ==
    IF ~d.exists THEN "not_found"
    ELSE IF ~d.output THEN "not_indexed"
    ELSE IF method \notin SearchMethods THEN "invalid_method"
    ELSE "search"

\* Lines 224 and 250-251: the HTTPException(400) for an unknown method is
\* raised inside the try block, and HTTPException is an Exception, so the
\* handler's own except clause catches it and raises HTTPException(500).
InvalidMethodResponse == HTTPException("query", 500, "Query failed", {})

\* Lines 219-222: the search routine of the method.
SearchFn(method) == IF method = "local" THEN "run_local_search" ELSE "run_global_search"

run_query(p, method) ==
    LET way == QueryDecision(fs[p], method)
    IN  /\ CASE way = "not_found" ->
                  /\ resp' = HTTPException("query", 404, "Project not found.", {})
                  /\ UNCHANGED inflight
             [] way = "not_indexed" ->
                  /\ resp' = HTTPException("query", 400,
                                           "Project has not been indexed yet.", {})
                  /\ UNCHANGED inflight
             [] way = "invalid_method" ->
                  /\ resp' = InvalidMethodResponse
                  /\ UNCHANGED inflight
             [] OTHER ->
                  /\ FreeSlots # {}
                  /\ resp' = NoResp
                  /\ inflight' = [inflight EXCEPT ![NextSlot] =
                         [Idle EXCEPT !.kind = "query", !.pid = p, !.method = method]]
        /\ UNCHANGED <<env, fs, generated, created, deleted>>

\* Lines 226-251: the executor call returns or raises.
run_query_resume(s, ok) ==
    LET r == inflight[s]
    IN  /\ r.kind = "query"
        /\ inflight' = [inflight EXCEPT ![s] = Idle]
        /\ resp' = IF ok
                   THEN Returned("query", 200, r.pid, "response", {SearchFn(r.method)})
                   ELSE HTTPException("query", 500, "Query failed", {SearchFn(r.method)})
        /\ UNCHANGED <<env, fs, generated, created, deleted>>

(***************************************************************************)
(* POST /upload_txt/{project_id}                                           *)
(***************************************************************************)

\* The lists of files of the upload requests: 1 to MaxFiles files, a file
\* named by its place in the list.
FileLists == {[i \in 1..n |-> i] : n \in 1..MaxFiles}

UploadStatus_AnyFailed(successful, failed) == IF failed # <<>> THEN 400 ELSE 200

\* Lines 283-290: 400 when no file was written, else 200.
UploadStatus(successful, failed) == IF successful = <<>> THEN 400 ELSE 200

\* Lines 259-276 up to the first await: 404, else make input/ when it is
\* missing and suspend in file.read() of the first file.
upload_txt_files(p, files) ==
    /\ IF ~fs[p].exists
       THEN /\ resp' = HTTPException("upload", 404, "Project not found.", {})
            /\ UNCHANGED <<fs, inflight>>
       ELSE /\ FreeSlots # {}
            /\ fs' = [fs EXCEPT ![p].input = TRUE]
            /\ resp' = NoResp
            /\ inflight' = [inflight EXCEPT ![NextSlot] =
                   [Idle EXCEPT !.kind = "upload", !.pid = p, !.files = files, !.idx = 1]]
    /\ UNCHANGED <<env, generated, created, deleted>>

\* Lines 276-290: file.read() of file idx returns or raises, write_bytes
\* writes into input/ or raises (it raises when input/ is gone), the file
\* goes to one list, and the loop goes on to the next file's read or ends.
upload_resume(s, ioOk) ==
    LET r == inflight[s]
        f == r.files[r.idx]
        written == ioOk /\ fs[r.pid].exists /\ fs[r.pid].input
        successful == IF written THEN Append(r.successful, f) ELSE r.successful
        failed == IF written THEN r.failed ELSE Append(r.failed, f)
    IN  /\ r.kind = "upload"
        /\ IF r.idx < Len(r.files)
           THEN /\ inflight' = [inflight EXCEPT ![s] =
                       [r EXCEPT !.idx = @ + 1, !.successful = successful,
                                 !.failed = failed]]
                /\ resp' = NoResp
           ELSE /\ inflight' = [inflight EXCEPT ![s] = Idle]
                /\ resp' = Response("upload", UploadStatus(successful, failed),
                                    IF successful = <<>> THEN "No files could be uploaded."
                                    ELSE "Processed", r.pid, {}, successful, failed, {})
        /\ UNCHANGED <<env, fs, generated, created, deleted>>

(***************************************************************************)
(* The server                                                              *)
(***************************************************************************)

Environments ==
    [GRAPHRAG_API_KEY : {ABSENT, "", "k"}, AZURE_API_BASE : {ABSENT, "b"},
     AZURE_API_VERSION : {ABSENT, "1"}, AZURE_DEPLOYMENT_NAME : {ABSENT, "d"}]

\* The environment of the runs that exercise the whole API: nothing set.
ServerEnvironments == {e \in Environments : \A k \in DOMAIN e : e[k] = ABSENT}

Bodies ==
    [api_key : {ABSENT, "", "k"}, llm : {ABSENT, "azure"},
     text_content : {"", "text"}, azure_api_base : {ABSENT, "b"},
     azure_api_version : {ABSENT, "1"}, azure_deployment_name : {ABSENT, "d"}]

\* The create requests of the runs that exercise the whole API.
ServerBodies ==
    {[NoBody EXCEPT !.text_content = "text", !.api_key = k] : k \in {ABSENT, "k"}}

IndexMethodInputs == {"standard", "bogus"}
OutputDirInputs == {ABSENT, "elsewhere"}
QueryMethodInputs == {"local", "global", "bogus"}

\* Line 39 has made API_PROJECTS_DIR; it holds no project.
InitServer ==
    /\ fs = [p \in ProjectIds |-> NoDir]
    /\ generated = {}
    /\ inflight = [s \in Slots |-> Idle]
    /\ resp = NoResp
    /\ created = {}
    /\ deleted = {}

Init == InitServer /\ env \in ServerEnvironments

Next ==
    \/ \E b \in ServerBodies, failAt \in CreateSteps \cup {"none"}, partial \in BOOLEAN :
          create_project(b, failAt, partial)
    \/ \E p \in ProjectIds, rmOk \in BOOLEAN, left \in DirStates :
          delete_project(p, rmOk, left)
    \/ list_projects
    \/ \E p \in ProjectIds, method \in IndexMethodInputs, dry_run \in BOOLEAN,
          output_dir \in OutputDirInputs, cfgOk \in BOOLEAN :
          run_indexing(p, method, dry_run, output_dir, cfgOk)
    \/ \E s \in Slots, ok \in BOOLEAN, wrote \in BOOLEAN : run_indexing_resume(s, ok, wrote)
    \/ \E p \in ProjectIds, method \in QueryMethodInputs : run_query(p, method)
    \/ \E s \in Slots, ok \in BOOLEAN : run_query_resume(s, ok)
    \/ \E p \in ProjectIds, files \in FileLists : upload_txt_files(p, files)
    \/ \E s \in Slots, ioOk \in BOOLEAN : upload_resume(s, ioOk)

Spec == Init /\ [][Next]_vars

\* The runs that exercise request validation: every environment, every
\* request body.
InitValidation == InitServer /\ env \in Environments

NextValidation ==
    \/ \E b \in Bodies, failAt \in {"none", "settings"} : create_project(b, failAt, FALSE)
    \/ list_projects

SpecValidation == InitValidation /\ [][NextValidation]_vars

(***************************************************************************)
(* Properties                                                              *)
(***************************************************************************)

\* "Resolvable from the request or from the environment": the request's
\* value, or the environment's when the request gives none.
Resolvable(given, fromEnv) == ~Falsy(given) \/ ~Falsy(fromEnv)

\* The step sent a response of handler op or sent none. Every step of a
\* handler does one of the two, so a property of a handler's steps need
\* only be looked at on these steps.
AnswersOrSuspends(op) == resp'.op = op \/ resp' = NoResp

\* C1: a create request that gives no credential (api_key absent or empty)
\* while GRAPHRAG_API_KEY is unset or empty fails validation, and the
\* directories under the workspace root are the same after it as before it,
\* at every repetition.
C1_MissingCredentialFailsValidation ==
    [][AnswersOrSuspends("create") =>
        \A b \in Bodies, failAt \in {"none", "settings"} :
          (/\ Falsy(b.api_key) /\ Falsy(env.GRAPHRAG_API_KEY)
           /\ create_project(b, failAt, FALSE))
          => /\ resp'.op = "create" /\ resp'.status = 422
             /\ resp'.detail = "API key required"
             /\ ListProjects' = ListProjects
             /\ fs' = fs /\ generated' = generated]_vars

\* A credential-less request was refused after a project had been created
\* (by a request that gave its credential).
C1_Witness ==
    /\ resp.op = "create" /\ resp.status = 422
    /\ resp.detail = "API key required"
    /\ Falsy(env.GRAPHRAG_API_KEY)
    /\ ListProjects # {}

\* C2: for a create request with provider 'azure' and a resolvable
\* credential, validation passes if and only if each of azure_api_base,
\* azure_api_version and azure_deployment_name is resolvable from the
\* request body or from its environment variable.
C2_AzureValidatesIffResolvable ==
    [][AnswersOrSuspends("create") =>
        \A b \in Bodies, failAt \in {"none", "settings"} :
          (/\ b.llm = "azure"
           /\ Resolvable(b.api_key, env.GRAPHRAG_API_KEY)
           /\ create_project(b, failAt, FALSE))
          => (resp'.status # 422 <=>
                /\ Resolvable(b.azure_api_base, env.AZURE_API_BASE)
                /\ Resolvable(b.azure_api_version, env.AZURE_API_VERSION)
                /\ Resolvable(b.azure_deployment_name, env.AZURE_DEPLOYMENT_NAME))]_vars

\* C3: a query with a method other than 'local' or 'global' on a project
\* whose output directory exists fails with HTTP 400, not 500, and no
\* search routine is invoked.
C3_InvalidMethodIsBadRequest ==
    [][AnswersOrSuspends("query") =>
        \A p \in ProjectIds, method \in QueryMethodInputs :
          (/\ fs[p].exists /\ fs[p].output /\ method \notin SearchMethods
           /\ run_query(p, method))
          => /\ resp'.op = "query" /\ resp'.status = 400
             /\ resp'.ext = {} /\ inflight' = inflight]_vars

\* C4: a query on a project whose directory exists and whose output
\* directory does not fails with HTTP 400 "not indexed" for every method,
\* recognized or not, and invokes no search routine; a query on a project
\* whose directory does not exist fails with HTTP 404.
C4_QueryPreconditions ==
    [][AnswersOrSuspends("query") =>
        \A p \in ProjectIds, method \in QueryMethodInputs :
          run_query(p, method)
          => /\ (fs[p].exists /\ ~fs[p].output)
                  => /\ resp'.op = "query" /\ resp'.status = 400
                     /\ resp'.detail = "Project has not been indexed yet."
                     /\ resp'.ext = {} /\ inflight' = inflight
             /\ ~fs[p].exists
                  => /\ resp'.op = "query" /\ resp'.status = 404
                     /\ resp'.ext = {} /\ inflight' = inflight]_vars

\* A query was refused as not indexed while a project without output/ exists.
C4_Witness ==
    /\ resp.op = "query" /\ resp.status = 400
    /\ \E p \in ProjectIds : fs[p].exists /\ ~fs[p].output

\* The files of a sequence, as a set.
Range(seq) == {seq[i] : i \in 1..Len(seq)}

\* C5: an upload of N files puts every file in exactly one of the lists
\* successful and failed, whatever fails; a file's failure does not stop
\* the files after it; the call ends with HTTP 400 and the report exactly
\* when successful is empty, and with HTTP 200 and the report otherwise.
C5_UploadPartition ==
    [][AnswersOrSuspends("upload") =>
        \A s \in Slots, ioOk \in BOOLEAN :
          upload_resume(s, ioOk)
          => LET r == inflight[s]
             IN  IF r.idx < Len(r.files)
                 THEN /\ inflight'[s].kind = "upload"
                      /\ inflight'[s].idx = r.idx + 1
                      /\ Len(inflight'[s].successful) + Len(inflight'[s].failed) = r.idx
                      /\ resp' = NoResp
                 ELSE /\ resp'.op = "upload"
                      /\ Len(resp'.successful) + Len(resp'.failed) = Len(r.files)
                      /\ Range(resp'.successful) \cup Range(resp'.failed) = Range(r.files)
                      /\ Range(resp'.successful) \cap Range(resp'.failed) = {}
                      /\ resp'.status = 400 <=> resp'.successful = <<>>
                      /\ resp'.status = 200 <=> resp'.successful # <<>>]_vars

\* An upload whose first file failed and whose second file was written
\* ended with HTTP 200.
C5_Witness ==
    /\ resp.op = "upload" /\ resp.status = 200
    /\ resp.failed = <<1>> /\ resp.successful = <<2>>

\* C6: once a delete request on P has returned success, P's directory does
\* not exist (list() does not hold P, requests on P get 404); uuid4 never
\* hands out P again, so this lasts.
C6_DeletedStaysDeleted == \A p \in deleted : ~fs[p].exists

\* C7: when every request has completed, list() returns exactly the
\* identifiers returned by successful create requests and not successfully
\* deleted since.
C7_ListIsCreatedMinusDeleted ==
    (resp.op = "list" /\ AllCompleted) => resp.projects = created \ deleted

C9_DryRunAndMissingProject ==
    [][AnswersOrSuspends("index") =>
        \A p \in ProjectIds, method \in IndexMethodInputs, dry_run \in BOOLEAN,
           output_dir \in OutputDirInputs, cfgOk \in BOOLEAN :
          run_indexing(p, method, dry_run, output_dir, cfgOk)
          => /\ (dry_run /\ fs[p].exists /\ cfgOk)
                  => /\ resp'.op = "index" /\ resp'.status = 200
                     /\ "build_index" \notin resp'.ext
                     /\ inflight' = inflight /\ fs' = fs
             /\ ~fs[p].exists
                  => /\ resp'.op = "index" /\ resp'.status = 404
                     /\ resp'.ext = {}
                     /\ inflight' = inflight /\ fs' = fs]_vars

\* A dry run succeeded on a project that is not indexed.
C9_Witness ==
    /\ resp.op = "index" /\ resp.status = 200
    /\ resp.ext = {"load_config"}
    /\ ~fs[resp.project_id].output /\ fs[resp.project_id].exists

\* C10: in every reachable state every project directory that exists holds
\* its input subdirectory.
C10_InputAlwaysExists == \A p \in ProjectIds : fs[p].exists => fs[p].input

====
